---- MODULE Spec2Model ----
(***************************************************************************)
(* Model of the arn crate (src/lib.rs): the Arn value type, its parser     *)
(* (FromStr), its renderer (Display / Debug), the String conversions used  *)
(* by serde, and the Region table.                                         *)
(*                                                                         *)
(* A text is a sequence of one-character strings; its length Len(t) is the *)
(* length str::len() and ArrayString measure (one unit per element).       *)
(***************************************************************************)
EXTENDS Integers, Sequences, FiniteSets, TLC

(* ---------------- bounds of the explored inputs ---------------- *)

\* longest run past a field's capacity that the inputs try
MaxOver == 1
\* largest number of ':'-separated pieces in the resource part of an input
MaxTail == 3

(* ---------------- capacities of the three text fields ---------------- *)

CAP_SERVICE == 32
CAP_ACCOUNT == 12
CAP_RESOURCE == 64
\* parts.len() < 6 is rejected
MIN_PARTS == 6

(* ---------------- text helpers ---------------- *)

Colon == ":"
Star == <<"*">>

\* str::repeat
Rep(c, n) == [i \in 1..n |-> c]

\* the separators still ahead of the split iterator in s
Seps(s) == {i \in 1..Len(s) : s[i] = Colon}

\* str::split(':'): the iterator yields the text up to the next separator and
\* goes on after it; the text left when no separator remains is the last
\* part, so k separators give k + 1 parts and "" gives one empty part
RECURSIVE split(_)
split(s) ==
    LET seps == Seps(s)
    IN  IF seps = {} THEN <<s>>
        ELSE LET p == CHOOSE i \in seps : \A j \in seps : i <= j
             IN  <<SubSeq(s, 1, p - 1)>> \o split(SubSeq(s, p + 1, Len(s)))

\* [&str]::join(":")
RECURSIVE join(_)
join(parts) ==
    IF Len(parts) = 0 THEN <<>>
    ELSE IF Len(parts) = 1 THEN parts[1]
    ELSE parts[1] \o <<Colon>> \o join(Tail(parts))

(* ---------------- Component<V> ---------------- *)

\* Component::None, Component::Any, Component::Value(v); the payload slot of
\* None and Any is a filler of the payload's type
ComponentNone(filler) == [tag |-> "None", v |-> filler]
ComponentAny(filler) == [tag |-> "Any", v |-> filler]
ComponentValue(x) == [tag |-> "Value", v |-> x]

\* filler of Component<Region>
NoRegion == ""

(* ---------------- ArrayString<CAP> ---------------- *)

\* ArrayString::from with the capacity test off by one: a text that fills the
\* buffer exactly is refused
ArrayString_from_strict(s, cap) ==
    IF Len(s) >= cap THEN [ok |-> FALSE, v |-> <<>>] ELSE [ok |-> TRUE, v |-> s]

\* ArrayString::from(s): Err(CapacityError) when s does not fit, else the text
ArrayString_from(s, cap) ==
    IF Len(s) > cap THEN [ok |-> FALSE, v |-> <<>>] ELSE [ok |-> TRUE, v |-> s]

(* ---------------- Region ---------------- *)

Region ==
    {"UsEast1", "UsEast2", "UsWest1", "UsWest2", "AfSouth1", "ApEast1",
     "ApEast2", "ApSouth1", "ApSouth2", "ApSoutheast1", "ApSoutheast2",
     "ApSoutheast3", "ApSoutheast4", "ApSoutheast5", "ApSoutheast7",
     "ApNortheast1", "ApNortheast2", "ApNortheast3", "CaCentral1", "CaWest1",
     "EuCentral1", "EuCentral2", "EuWest1", "EuWest2", "EuSouth1", "EuSouth2",
     "EuNorth1", "EuNorth2", "IlCentral1", "MxCentral1", "MeSouth1",
     "MeCentral1", "SaEast1"}

\* Result<Region, RegionError>
RegionOk(r) == [ok |-> TRUE, region |-> r, text |-> <<>>]
\* RegionError::DoesNotExist(s.to_string())
RegionErr(s) == [ok |-> FALSE, region |-> NoRegion, text |-> s]

Region_as_ref(r) ==
    CASE r = "UsEast1" -> <<"u","s","-","e","a","s","t","-","1">>
      [] r = "UsEast2" -> <<"u","s","-","e","a","s","t","-","2">>
      [] r = "UsWest1" -> <<"u","s","-","w","e","s","t","-","1">>
      [] r = "UsWest2" -> <<"u","s","-","w","e","s","t","-","2">>
      [] r = "AfSouth1" -> <<"a","f","-","s","o","u","t","h","-","1">>
      [] r = "ApEast1" -> <<"a","p","-","e","a","s","t","-","1">>
      [] r = "ApEast2" -> <<"a","p","-","e","a","s","t","-","2">>
      [] r = "ApSouth1" -> <<"a","p","-","s","o","u","t","h","-","1">>
      [] r = "ApSouth2" -> <<"a","p","-","s","o","u","t","h","-","2">>
      [] r = "ApSoutheast1" -> <<"a","p","-","s","o","u","t","h","e","a","s","t","-","1">>
      [] r = "ApSoutheast2" -> <<"a","p","-","s","o","u","t","h","e","a","s","t","-","2">>
      [] r = "ApSoutheast3" -> <<"a","p","-","s","o","u","t","h","e","a","s","t","-","3">>
      [] r = "ApSoutheast4" -> <<"a","p","-","s","o","u","t","h","e","a","s","t","-","4">>
      [] r = "ApSoutheast5" -> <<"a","p","-","s","o","u","t","h","e","a","s","t","-","5">>
      [] r = "ApSoutheast7" -> <<"a","p","-","s","o","u","t","h","e","a","s","t","-","7">>
      [] r = "ApNortheast1" -> <<"a","p","-","n","o","r","t","h","e","a","s","t","-","1">>
      [] r = "ApNortheast2" -> <<"a","p","-","n","o","r","t","h","e","a","s","t","-","2">>
      [] r = "ApNortheast3" -> <<"a","p","-","n","o","r","t","h","e","a","s","t","-","3">>
      [] r = "CaCentral1" -> <<"c","a","-","c","e","n","t","r","a","l","-","1">>
      [] r = "CaWest1" -> <<"c","a","-","w","e","s","t","-","1">>
      [] r = "EuCentral1" -> <<"e","u","-","c","e","n","t","r","a","l","-","1">>
      [] r = "EuCentral2" -> <<"e","u","-","c","e","n","t","r","a","l","-","2">>
      [] r = "EuWest1" -> <<"e","u","-","w","e","s","t","-","1">>
      [] r = "EuWest2" -> <<"e","u","-","w","e","s","t","-","2">>
      [] r = "EuSouth1" -> <<"e","u","-","s","o","u","t","h","-","1">>
      [] r = "EuSouth2" -> <<"e","u","-","s","o","u","t","h","-","2">>
      [] r = "EuNorth1" -> <<"e","u","-","n","o","r","t","h","-","1">>
      [] r = "EuNorth2" -> <<"e","u","-","n","o","r","t","h","-","2">>
      [] r = "IlCentral1" -> <<"i","l","-","c","e","n","t","r","a","l","-","1">>
      [] r = "MxCentral1" -> <<"m","x","-","c","e","n","t","r","a","l","-","1">>
      [] r = "MeSouth1" -> <<"m","e","-","s","o","u","t","h","-","1">>
      [] r = "MeCentral1" -> <<"m","e","-","c","e","n","t","r","a","l","-","1">>
      [] r = "SaEast1" -> <<"s","a","-","e","a","s","t","-","1">>

Region_from_str(s) ==
    CASE s = <<"u","s","-","e","a","s","t","-","1">> -> RegionOk("UsEast1")
      [] s = <<"u","s","-","e","a","s","t","-","2">> -> RegionOk("UsEast2")
      [] s = <<"u","s","-","w","e","s","t","-","1">> -> RegionOk("UsWest1")
      [] s = <<"u","s","-","w","e","s","t","-","2">> -> RegionOk("UsWest2")
      [] s = <<"a","f","-","s","o","u","t","h","-","1">> -> RegionOk("AfSouth1")
      [] s = <<"a","p","-","e","a","s","t","-","1">> -> RegionOk("ApEast1")
      [] s = <<"a","p","-","e","a","s","t","-","2">> -> RegionOk("ApEast2")
      [] s = <<"a","p","-","s","o","u","t","h","-","1">> -> RegionOk("ApSouth1")
      [] s = <<"a","p","-","s","o","u","t","h","-","2">> -> RegionOk("ApSouth2")
      [] s = <<"a","p","-","s","o","u","t","h","e","a","s","t","-","1">> -> RegionOk("ApSoutheast1")
      [] s = <<"a","p","-","s","o","u","t","h","e","a","s","t","-","2">> -> RegionOk("ApSoutheast2")
      [] s = <<"a","p","-","s","o","u","t","h","e","a","s","t","-","3">> -> RegionOk("ApSoutheast3")
      [] s = <<"a","p","-","s","o","u","t","h","e","a","s","t","-","4">> -> RegionOk("ApSoutheast4")
      [] s = <<"a","p","-","s","o","u","t","h","e","a","s","t","-","5">> -> RegionOk("ApSoutheast5")
      [] s = <<"a","p","-","s","o","u","t","h","e","a","s","t","-","7">> -> RegionOk("ApSoutheast7")
      [] s = <<"a","p","-","n","o","r","t","h","e","a","s","t","-","1">> -> RegionOk("ApNortheast1")
      [] s = <<"a","p","-","n","o","r","t","h","e","a","s","t","-","2">> -> RegionOk("ApNortheast2")
      [] s = <<"a","p","-","n","o","r","t","h","e","a","s","t","-","3">> -> RegionOk("ApNortheast3")
      [] s = <<"c","a","-","c","e","n","t","r","a","l","-","1">> -> RegionOk("CaCentral1")
      [] s = <<"c","a","-","w","e","s","t","-","1">> -> RegionOk("CaWest1")
      [] s = <<"e","u","-","c","e","n","t","r","a","l","-","1">> -> RegionOk("EuCentral1")
      [] s = <<"e","u","-","c","e","n","t","r","a","l","-","2">> -> RegionOk("EuCentral2")
      [] s = <<"e","u","-","w","e","s","t","-","1">> -> RegionOk("EuWest1")
      [] s = <<"e","u","-","w","e","s","t","-","2">> -> RegionOk("EuWest2")
      [] s = <<"e","u","-","s","o","u","t","h","-","1">> -> RegionOk("EuSouth1")
      [] s = <<"e","u","-","s","o","u","t","h","-","2">> -> RegionOk("EuSouth2")
      [] s = <<"e","u","-","n","o","r","t","h","-","1">> -> RegionOk("EuNorth1")
      [] s = <<"e","u","-","n","o","r","t","h","-","2">> -> RegionOk("EuNorth2")
      [] s = <<"i","l","-","c","e","n","t","r","a","l","-","1">> -> RegionOk("IlCentral1")
      [] s = <<"m","x","-","c","e","n","t","r","a","l","-","1">> -> RegionOk("MxCentral1")
      [] s = <<"m","e","-","s","o","u","t","h","-","1">> -> RegionOk("MeSouth1")
      [] s = <<"m","e","-","c","e","n","t","r","a","l","-","1">> -> RegionOk("MeCentral1")
      [] s = <<"s","a","-","e","a","s","t","-","1">> -> RegionOk("SaEast1")
      [] OTHER -> RegionErr(s)

(* ---------------- ArnParseError and Result<Arn, ArnParseError> ---------------- *)

NoError == [kind |-> "none", count |-> 0, text |-> <<>>]
InvalidFormat(n) == [kind |-> "InvalidFormat", count |-> n, text |-> <<>>]
ServiceTooLong == [kind |-> "ServiceTooLong", count |-> 0, text |-> <<>>]
AccountTooLong == [kind |-> "AccountTooLong", count |-> 0, text |-> <<>>]
ResourceIdTooLong == [kind |-> "ResourceIdTooLong", count |-> 0, text |-> <<>>]
InvalidRegion(s) == [kind |-> "InvalidRegion", count |-> 0, text |-> s]

(* ---------------- Arn ---------------- *)

Arn(service, region, account, resource_id) ==
    [service |-> service, region |-> region, account |-> account,
     resource_id |-> resource_id]

\* #[derive(Default)]: every field is Component::None
Arn_default ==
    Arn(ComponentNone(<<>>), ComponentNone(NoRegion), ComponentNone(<<>>),
        ComponentNone(<<>>))

\* Arn::ANY
Arn_ANY ==
    Arn(ComponentAny(<<>>), ComponentAny(NoRegion), ComponentAny(<<>>),
        ComponentAny(<<>>))

Ok(arn) == [ok |-> TRUE, arn |-> arn, err |-> NoError]
Err(e) == [ok |-> FALSE, arn |-> Arn_default, err |-> e]

\* the `service` block of from_str; part is parts[2]
parse_service(part) ==
    IF part = <<>> THEN [ok |-> TRUE, c |-> ComponentNone(<<>>)]
    ELSE LET a == ArrayString_from(part, CAP_SERVICE)
         IN  [ok |-> a.ok, c |-> ComponentValue(a.v)]

\* the `region` block with unwrap_or_default() in place of map_err(..)?
parse_region_or_default(part) ==
    IF part = <<>> THEN [ok |-> TRUE, c |-> ComponentNone(NoRegion)]
    ELSE LET r == Region_from_str(part)
         IN  [ok |-> TRUE,
              c |-> ComponentValue(IF r.ok THEN r.region ELSE "UsEast1")]

\* the `region` block of from_str; part is parts[3]
parse_region(part) ==
    IF part = <<>> THEN [ok |-> TRUE, c |-> ComponentNone(NoRegion)]
    ELSE LET r == Region_from_str(part)
         IN  [ok |-> r.ok, c |-> ComponentValue(r.region)]

\* the `account` block without the is_empty() test
parse_account_keep_empty(part) ==
    LET a == ArrayString_from(part, CAP_ACCOUNT)
    IN  [ok |-> a.ok, c |-> ComponentValue(a.v)]

\* the `account` block of from_str; part is parts[4]
parse_account(part) ==
    IF part = <<>> THEN [ok |-> TRUE, c |-> ComponentNone(<<>>)]
    ELSE LET a == ArrayString_from(part, CAP_ACCOUNT)
         IN  [ok |-> a.ok, c |-> ComponentValue(a.v)]

\* parts[5] alone: the segments after it are dropped
resource_part_first(parts) == parts[6]

\* parts[5..].join(":")
resource_part(parts) == join(SubSeq(parts, 6, Len(parts)))

\* the `resource_id` block of from_str
parse_resource_id(part) ==
    IF part = <<>> THEN [ok |-> TRUE, c |-> ComponentNone(<<>>)]
    ELSE LET a == ArrayString_from(part, CAP_RESOURCE)
         IN  [ok |-> a.ok, c |-> ComponentValue(a.v)]

\* from_str with `parts.len() <= 6`: a text of exactly six parts is refused
Arn_from_str_seven(value) ==
    LET parts == split(value)
    IN  IF Len(parts) <= MIN_PARTS THEN Err(InvalidFormat(Len(parts)))
        ELSE LET service == parse_service(parts[3])
                 region == parse_region(parts[4])
                 account == parse_account(parts[5])
                 resource_id == parse_resource_id(resource_part(parts))
             IN  IF ~service.ok THEN Err(ServiceTooLong)
                 ELSE IF ~region.ok THEN Err(InvalidRegion(parts[4]))
                 ELSE IF ~account.ok THEN Err(AccountTooLong)
                 ELSE IF ~resource_id.ok THEN Err(ResourceIdTooLong)
                 ELSE Ok(Arn(service.c, region.c, account.c, resource_id.c))

\* from_str that also insists on parts[0] == "arn"
Arn_from_str_checked_prefix(value) ==
    LET parts == split(value)
    IN  IF Len(parts) < MIN_PARTS \/ parts[1] # <<"a", "r", "n">>
        THEN Err(InvalidFormat(Len(parts)))
        ELSE LET service == parse_service(parts[3])
                 region == parse_region(parts[4])
                 account == parse_account(parts[5])
                 resource_id == parse_resource_id(resource_part(parts))
             IN  IF ~service.ok THEN Err(ServiceTooLong)
                 ELSE IF ~region.ok THEN Err(InvalidRegion(parts[4]))
                 ELSE IF ~account.ok THEN Err(AccountTooLong)
                 ELSE IF ~resource_id.ok THEN Err(ResourceIdTooLong)
                 ELSE Ok(Arn(service.c, region.c, account.c, resource_id.c))

\* <Arn as FromStr>::from_str; parts[k] of the source is parts[k + 1] here.
\* Each `?` returns the first error met, in the order service, region,
\* account, resource id.
Arn_from_str(value) ==
    LET parts == split(value)
    IN  IF Len(parts) < MIN_PARTS THEN Err(InvalidFormat(Len(parts)))
        ELSE LET service == parse_service(parts[3])
                 region == parse_region(parts[4])
                 account == parse_account(parts[5])
                 resource_id == parse_resource_id(resource_part(parts))
             IN  IF ~service.ok THEN Err(ServiceTooLong)
                 ELSE IF ~region.ok THEN Err(InvalidRegion(parts[4]))
                 ELSE IF ~account.ok THEN Err(AccountTooLong)
                 ELSE IF ~resource_id.ok THEN Err(ResourceIdTooLong)
                 ELSE Ok(Arn(service.c, region.c, account.c, resource_id.c))

\* <Arn as TryFrom<String>>::try_from: value.parse()
Arn_try_from(value) == Arn_from_str(value)

\* the match arms with Any and None exchanged
fmt_text_swapped(c) ==
    CASE c.tag = "Value" -> c.v
      [] c.tag = "Any" -> <<>>
      [] c.tag = "None" -> Star

\* the match arms of Display for the three ArrayString fields
fmt_text(c) ==
    CASE c.tag = "Value" -> c.v
      [] c.tag = "Any" -> Star
      [] c.tag = "None" -> <<>>

\* the match arms of Display for the region field
fmt_region(c) ==
    CASE c.tag = "Value" -> Region_as_ref(c.v)
      [] c.tag = "Any" -> Star
      [] c.tag = "None" -> <<>>

\* <Arn as Display>::fmt: write!(f, "arn:aws:{}:{}:{}:{}", ...)
Arn_fmt(arn) ==
    <<"a", "r", "n", ":", "a", "w", "s", ":">>
        \o fmt_text(arn.service) \o <<":">>
        \o fmt_region(arn.region) \o <<":">>
        \o fmt_text(arn.account) \o <<":">>
        \o fmt_text(arn.resource_id)

\* <Arn as Debug>::fmt: write!(f, "{}", self)
Arn_fmt_debug(arn) == Arn_fmt(arn)

\* <String as From<Arn>>::from: arn.to_string()
String_from_arn(arn) == Arn_fmt(arn)

\* <String as From<Region>>::from: value.as_ref().to_string()
String_from_region(r) == Region_as_ref(r)

(* ---------------- inputs the callers pass ---------------- *)

us_east_1 == <<"u","s","-","e","a","s","t","-","1">>
sa_east_1 == <<"s","a","-","e","a","s","t","-","1">>
\* texts that are not lines of the region table
NotRegions ==
    {Star, <<"m","a","r","s","-","1">>, <<"U","S","-","E","A","S","T","-","1">>,
     <<"u","s","-","e","a","s","t","-","1"," ">>, <<"u","s","-","e","a","s","t","-","3">>,
     <<"u","s","-","e","a","s","t">>}

\* segments 0 and 1 of an input
Heads ==
    {<<<<"a","r","n">>, <<"a","w","s">>>>, <<<<"x">>, <<"a","w","s">>>>,
     <<<<>>, <<"a","w","s","-","c","n">>>>}

ServiceSegs ==
    {<<>>, Star, <<"s","3">>} \cup {Rep("a", CAP_SERVICE + d) : d \in 0..MaxOver}
RegionSegs ==
    {<<>>, Star, us_east_1, <<"m","a","r","s","-","1">>,
     <<"U","S","-","E","A","S","T","-","1">>}
AccountSegs ==
    {<<>>, Star, <<"1","2">>} \cup {Rep("1", CAP_ACCOUNT + d) : d \in 0..MaxOver}
TailSegs ==
    {<<>>, Star, <<"b">>, Rep("a", CAP_RESOURCE - 2), Rep("a", CAP_RESOURCE - 1)}
        \cup {Rep("a", CAP_RESOURCE + d) : d \in 0..MaxOver}
\* the pieces that follow segment 5
MoreSegs == {<<>>, <<"$">>, Star}
\* segments 5 onward of an input: 1..MaxTail pieces
Tails ==
    {<<t>> \o m : t \in TailSegs,
                  m \in UNION {[1..k -> MoreSegs] : k \in 0..(MaxTail - 1)}}

\* segments of an input that has too few of them
ShortSegs == {<<>>, Star, <<"a","r","n">>, Rep("a", CAP_SERVICE + 1)}
ShortInputs == UNION {[1..k -> ShortSegs] : k \in 1..(MIN_PARTS - 1)}

\* the region texts handed to Region::from_str directly
RegionTexts == {Region_as_ref(r) : r \in Region} \cup NotRegions \cup {<<>>}

\* Arn values a caller builds by field assignment
ServiceValues ==
    {ComponentNone(<<>>), ComponentAny(<<>>), ComponentValue(<<"s","3">>),
     ComponentValue(Rep("a", CAP_SERVICE))}
RegionValues ==
    {ComponentNone(NoRegion), ComponentAny(NoRegion)}
        \cup {ComponentValue(r) : r \in Region}
AccountValues ==
    {ComponentNone(<<>>), ComponentAny(<<>>),
     ComponentValue(Rep("1", CAP_ACCOUNT))}
ResourceValues ==
    {ComponentNone(<<>>), ComponentAny(<<>>), ComponentValue(<<"b">>),
     ComponentValue(<<"f",":","g",":","$">>),
     ComponentValue(Rep("a", CAP_RESOURCE))}

(* ---------------- the callers ---------------- *)

VARIABLES
    pc,           \* where the caller stands
    segs,         \* the segments the input text was assembled from
    value,        \* the text given to Arn::from_str
    result,       \* what Arn::from_str returned
    arn,          \* the Arn value being rendered
    out,          \* its Display text
    dbg,          \* its Debug text
    segs2,        \* the segments of a second input, equal to segs from index 2 on
    result2,      \* what Arn::from_str returned for the second input
    region_text,  \* the text given to Region::from_str
    region_res,   \* what Region::from_str returned
    region_val,   \* the Region being rendered
    region_out    \* its canonical text

vars ==
    <<pc, segs, value, result, arn, out, dbg, segs2, result2, region_text,
      region_res, region_val, region_out>>

NoResult == Err(NoError)
NoRegionResult == [ok |-> FALSE, region |-> NoRegion, text |-> <<>>]

Init ==
    /\ pc = "start"
    /\ segs = <<>>
    /\ value = <<>>
    /\ result = NoResult
    /\ arn = Arn_default
    /\ out = <<>>
    /\ dbg = <<>>
    /\ segs2 = <<>>
    /\ result2 = NoResult
    /\ region_text = <<>>
    /\ region_res = NoRegionResult
    /\ region_val = NoRegion
    /\ region_out = <<>>

\* let arn: Result<Arn, _> = text.parse(), for the text join(s)
DoParse(s) ==
    /\ segs' = s
    /\ value' = join(s)
    /\ result' = Arn_from_str(join(s))
    /\ pc' = "parsed"
    /\ UNCHANGED <<arn, out, dbg, segs2, result2, region_text, region_res,
                   region_val, region_out>>

\* a text of six or more segments
Parse ==
    /\ pc = "start"
    /\ \E h \in Heads, sv \in ServiceSegs, rg \in RegionSegs,
          ac \in AccountSegs, tl \in Tails :
        DoParse(h \o <<sv, rg, ac>> \o tl)

\* a text whose region segment runs over the whole region table
ParseRegionTable ==
    /\ pc = "start"
    /\ \E r \in Region, sv \in {<<>>, <<"s","3">>}, ac \in {<<>>, <<"1","2">>},
          tl \in {<<<<>>>>, <<<<"b">>>>} :
        DoParse(<<<<"a","r","n">>, <<"a","w","s">>, sv, Region_as_ref(r), ac>> \o tl)

\* a text of fewer than six segments
ParseShort ==
    /\ pc = "start"
    /\ \E s \in ShortInputs : DoParse(s)

\* arn.to_string() and format!("{:?}", arn) on the parsed value
to_string ==
    /\ pc = "parsed"
    /\ result.ok
    /\ arn' = result.arn
    /\ out' = Arn_fmt(result.arn)
    /\ dbg' = Arn_fmt_debug(result.arn)
    /\ pc' = "rendered"
    /\ UNCHANGED <<segs, value, result, segs2, result2, region_text,
                   region_res, region_val, region_out>>

\* parse a second text that differs from the first in segments 0 and 1 only
ParseOther ==
    /\ pc = "parsed"
    /\ Len(segs) >= 2
    /\ \E h \in Heads :
        /\ segs2' = h \o SubSeq(segs, 3, Len(segs))
        /\ result2' = Arn_from_str(join(h \o SubSeq(segs, 3, Len(segs))))
    /\ pc' = "paired"
    /\ UNCHANGED <<segs, value, result, arn, out, dbg, region_text,
                   region_res, region_val, region_out>>

\* an Arn built by field assignment, Arn::ANY and Arn::default() included
Construct ==
    /\ pc = "start"
    /\ \E s \in ServiceValues, r \in RegionValues, a \in AccountValues,
          i \in ResourceValues :
        arn' = Arn(s, r, a, i)
    /\ pc' = "built"
    /\ UNCHANGED <<segs, value, result, out, dbg, segs2, result2,
                   region_text, region_res, region_val, region_out>>

\* String::from(arn), the serde `into`; Debug at the same point
IntoString ==
    /\ pc = "built"
    /\ out' = String_from_arn(arn)
    /\ dbg' = Arn_fmt_debug(arn)
    /\ pc' = "serialized"
    /\ UNCHANGED <<segs, value, result, arn, segs2, result2, region_text,
                   region_res, region_val, region_out>>

\* Arn::try_from(string), the serde `try_from`, on the serialized text
TryFrom ==
    /\ pc = "serialized"
    /\ value' = out
    /\ result' = Arn_try_from(out)
    /\ pc' = "deserialized"
    /\ UNCHANGED <<segs, arn, out, dbg, segs2, result2, region_text,
                   region_res, region_val, region_out>>

\* Arn::try_from(string), reached by serde with a text from outside
Deserialize ==
    /\ pc = "start"
    /\ \E s \in ShortInputs \cup
                {h \o <<<<"s","3">>, rg, <<"1","2">>, <<"b">>>> :
                    h \in Heads, rg \in RegionSegs} :
        /\ segs' = s
        /\ value' = join(s)
        /\ result' = Arn_try_from(join(s))
    /\ pc' = "try_from"
    /\ UNCHANGED <<arn, out, dbg, segs2, result2, region_text, region_res,
                   region_val, region_out>>

\* text.parse::<Region>()
RegionParse ==
    /\ pc = "start"
    /\ \E s \in RegionTexts :
        /\ region_text' = s
        /\ region_res' = Region_from_str(s)
    /\ pc' = "region_parsed"
    /\ UNCHANGED <<segs, value, result, arn, out, dbg, segs2, result2,
                   region_val, region_out>>

\* region.as_ref() on the parsed Region
RegionShow ==
    /\ pc = "region_parsed"
    /\ region_res.ok
    /\ region_val' = region_res.region
    /\ region_out' = Region_as_ref(region_res.region)
    /\ pc' = "region_shown"
    /\ UNCHANGED <<segs, value, result, arn, out, dbg, segs2, result2,
                   region_text, region_res>>

\* String::from(region) for a Region picked by the caller
RegionToText ==
    /\ pc = "start"
    /\ \E r \in Region :
        /\ region_val' = r
        /\ region_out' = String_from_region(r)
    /\ pc' = "region_text"
    /\ UNCHANGED <<segs, value, result, arn, out, dbg, segs2, result2,
                   region_text, region_res>>

\* parse the canonical text back
RegionFromText ==
    /\ pc = "region_text"
    /\ region_text' = region_out
    /\ region_res' = Region_from_str(region_out)
    /\ pc' = "region_back"
    /\ UNCHANGED <<segs, value, result, arn, out, dbg, segs2, result2,
                   region_val, region_out>>

Next ==
    \/ Parse
    \/ ParseRegionTable
    \/ ParseShort
    \/ to_string
    \/ ParseOther
    \/ Construct
    \/ IntoString
    \/ TryFrom
    \/ Deserialize
    \/ RegionParse
    \/ RegionShow
    \/ RegionToText
    \/ RegionFromText

Spec == Init /\ [][Next]_vars

(* ---------------- properties ---------------- *)

\* the states in which segs, value and result describe one call of from_str
Called == pc \in {"parsed", "rendered", "paired", "try_from"}

\* the strings of the region table
RegionTable == {Region_as_ref(r) : r \in Region}

\* the text of segments 5 onward of the input, rejoined
ResourceText == join(SubSeq(segs, 6, Len(segs)))

\* everything after the fifth ':' of a text that has one
AfterFifthColon(t) ==
    LET seps == Seps(t)
        p == CHOOSE q \in seps : Cardinality({r \in seps : r < q}) = 4
    IN  SubSeq(t, p + 1, Len(t))

\* the input is within the three capacities
InBounds ==
    /\ Len(segs[3]) <= CAP_SERVICE
    /\ Len(segs[5]) <= CAP_ACCOUNT
    /\ Len(ResourceText) <= CAP_RESOURCE

\* C1: every text "arn:aws:..." whose service, account and resource id fit and
\* whose region segment is empty, "*" or a table string parses, and rendering
\* the parsed value gives the text back.
C1_TextRoundTrip ==
    (Called /\ Len(segs) >= MIN_PARTS /\ InBounds
        /\ segs[1] = <<"a","r","n">> /\ segs[2] = <<"a","w","s">>
        /\ segs[4] \in {<<>>, Star} \cup RegionTable)
    => /\ result.ok
       /\ pc = "rendered" => out = value

\* C2: a segment that is exactly "*" parses to Component::Any in each of the
\* four fields; a "*" region never gives InvalidRegion and a "*" text segment
\* never gives Value("*").
C2_WildcardOnParse ==
    (Called /\ Len(segs) >= MIN_PARTS)
    => /\ segs[4] = Star => result.err.kind # "InvalidRegion"
       /\ result.ok =>
            /\ segs[3] = Star => result.arn.service = ComponentAny(<<>>)
            /\ segs[4] = Star => result.arn.region = ComponentAny(NoRegion)
            /\ segs[5] = Star => result.arn.account = ComponentAny(<<>>)
            /\ ResourceText = Star => result.arn.resource_id = ComponentAny(<<>>)

\* C3: parsing the rendered text of an Arn value whose fields are None, Any or
\* an in-bounds value (the serde serialize-then-deserialize path) succeeds and
\* returns the value.
C3_ValueRoundTrip ==
    pc = "deserialized" => result.ok /\ result.arn = arn

\* C4: with n the number of ':'-separated segments of the input, from_str
\* (also when reached through try_from) returns InvalidFormat(n) if and only
\* if n < 6; with n >= 6 it never returns InvalidFormat, whatever segments 0
\* and 1 hold.
C4_SegmentCount ==
    /\ Called =>
        /\ (result.err.kind = "InvalidFormat") <=> (Len(segs) < 6)
        /\ Len(segs) < 6 => result = Err(InvalidFormat(Len(segs)))
        /\ Len(segs) = Cardinality(Seps(value)) + 1
    /\ pc = "paired" =>
        /\ (result2.err.kind = "InvalidFormat") <=> (Len(segs2) < 6)
        /\ Len(segs2) < 6 => result2 = Err(InvalidFormat(Len(segs2)))
    /\ pc = "deserialized" => result.err.kind # "InvalidFormat"

C4_Witness ==
    /\ pc = "paired"
    /\ Len(segs) = 5
    /\ result = Err(InvalidFormat(5))
    /\ segs2[1] # segs[1]
    /\ result2 = Err(InvalidFormat(5))

\* the other fields of the input are ones from_str accepts: the region segment
\* is empty or a table string
RegionAccepted == segs[4] = <<>> \/ segs[4] \in RegionTable

\* C5: a service segment of up to 32 units parses to Value and a longer one
\* fails with ServiceTooLong; an account segment of up to 12 parses and a
\* longer one fails with AccountTooLong; a resource id of up to 64, measured
\* on the rejoined segments 5 onward with their ':', parses and a longer one
\* fails with ResourceIdTooLong; what parses is stored whole, never cut.
C5_LengthBoundaries ==
    (Called /\ Len(segs) >= MIN_PARTS)
    => /\ Len(segs[3]) > CAP_SERVICE => result = Err(ServiceTooLong)
       /\ (Len(segs[3]) <= CAP_SERVICE /\ RegionAccepted) =>
            /\ Len(segs[5]) > CAP_ACCOUNT => result = Err(AccountTooLong)
            /\ (Len(segs[5]) <= CAP_ACCOUNT /\ Len(ResourceText) > CAP_RESOURCE)
                    => result = Err(ResourceIdTooLong)
            /\ (Len(segs[5]) <= CAP_ACCOUNT /\ Len(ResourceText) <= CAP_RESOURCE)
                    => result.ok
       /\ result.ok =>
            /\ segs[3] # <<>> => result.arn.service = ComponentValue(segs[3])
            /\ segs[5] # <<>> => result.arn.account = ComponentValue(segs[5])
            /\ ResourceText # <<>> =>
                    result.arn.resource_id = ComponentValue(ResourceText)

C5_Witness ==
    /\ pc = "parsed"
    /\ Len(segs) > MIN_PARTS
    /\ Len(segs[3]) = CAP_SERVICE
    /\ Len(segs[5]) = CAP_ACCOUNT
    /\ Len(ResourceText) = CAP_RESOURCE
    /\ result.ok
    /\ result.arn.service = ComponentValue(segs[3])

\* C6: on a parse of six or more segments the resource_id field holds the text
\* after the fifth ':' of the input, verbatim: no later segment is dropped,
\* reordered or moved into another field, and rendering emits it unchanged.
C6_EmbeddedSeparators ==
    (Called /\ Len(segs) >= MIN_PARTS /\ result.ok)
    => /\ fmt_text(result.arn.resource_id) = AfterFifthColon(value)
       /\ AfterFifthColon(value) # <<>> =>
            result.arn.resource_id = ComponentValue(AfterFifthColon(value))
       /\ fmt_text(result.arn.service) = segs[3]
       /\ fmt_region(result.arn.region) = segs[4]
       /\ fmt_text(result.arn.account) = segs[5]
       /\ pc = "rendered" =>
            /\ Cardinality(Seps(out)) >= 5
            /\ AfterFifthColon(out) = AfterFifthColon(value)

C6_Witness ==
    /\ pc = "rendered"
    /\ Len(segs) = MIN_PARTS + 2
    /\ segs[6] # <<>> /\ segs[7] = <<>> /\ segs[8] # <<>>
    /\ result.ok
    /\ AfterFifthColon(out) = ResourceText

\* the part of C7 that is about Region alone: parsing a variant's canonical
\* string gives the variant, the canonical string of what from_str accepts is
\* the text it was given, distinct variants have distinct strings, and a text
\* off the table fails with DoesNotExist carrying it
RegionBijection ==
    /\ pc = "region_back" => region_res = RegionOk(region_val)
    /\ pc = "region_shown" => region_out = region_text
    /\ pc = "region_text" =>
        \A r \in Region : r # region_val => Region_as_ref(r) # region_out
    /\ pc = "region_parsed" =>
        /\ region_res.ok <=> region_text \in RegionTable
        /\ ~region_res.ok => region_res = RegionErr(region_text)

\* C7 as stated: the Region table is a bijection, and a non-empty region
\* segment that is not in the table makes from_str fail with InvalidRegion
\* carrying that segment.
C7_RegionTable_AsStated ==
    /\ RegionBijection
    /\ (Called /\ Len(segs) >= MIN_PARTS /\ segs[4] # <<>>
            /\ segs[4] \notin RegionTable)
        => result = Err(InvalidRegion(segs[4]))

\* C7, amended: the same, for inputs whose service segment fits its 32 units
\* (a longer service segment is reported first, as ServiceTooLong).
C7_RegionTable ==
    /\ RegionBijection
    /\ (Called /\ Len(segs) >= MIN_PARTS /\ Len(segs[3]) <= CAP_SERVICE
            /\ segs[4] # <<>> /\ segs[4] \notin RegionTable)
        => result = Err(InvalidRegion(segs[4]))

C7_Witness ==
    /\ pc = "parsed"
    /\ Len(segs) >= MIN_PARTS
    /\ Len(segs[3]) = CAP_SERVICE
    /\ segs[4] = <<"m","a","r","s","-","1">>
    /\ Len(segs[5]) > CAP_ACCOUNT
    /\ result = Err(InvalidRegion(<<"m","a","r","s","-","1">>))

\* C8: on a successful parse a field is Component::None exactly when its
\* source text is empty; no Value holds the empty text; an empty region
\* segment never gives InvalidRegion.
C8_EmptyFields ==
    (Called /\ Len(segs) >= MIN_PARTS)
    => /\ segs[4] = <<>> => result.err.kind # "InvalidRegion"
       /\ result.ok =>
            /\ (result.arn.service.tag = "None") <=> (segs[3] = <<>>)
            /\ (result.arn.region.tag = "None") <=> (segs[4] = <<>>)
            /\ (result.arn.account.tag = "None") <=> (segs[5] = <<>>)
            /\ (result.arn.resource_id.tag = "None") <=> (ResourceText = <<>>)
            /\ result.arn.service # ComponentValue(<<>>)
            /\ result.arn.account # ComponentValue(<<>>)
            /\ result.arn.resource_id # ComponentValue(<<>>)

C8_Witness ==
    /\ pc = "parsed"
    /\ result.ok
    /\ segs[3] # <<>> /\ segs[4] = <<>> /\ segs[5] = <<>>
    /\ Len(segs) = MIN_PARTS + 1 /\ ResourceText = <<":">>
    /\ result.arn.region = ComponentNone(NoRegion)
    /\ result.arn.account = ComponentNone(<<>>)
    /\ result.arn.resource_id.tag = "Value"

\* how C9 says one field is written: nothing for None, "*" for Any, the text
\* itself for a Value
Written(c, text) ==
    IF c.tag = "None" THEN <<>> ELSE IF c.tag = "Any" THEN <<"*">> ELSE text

\* the text of a region field that holds a Value
CanonicalText(c) == IF c.tag = "Value" THEN Region_as_ref(c.v) ELSE <<>>

\* C9: Display writes "arn:aws:" and then service, region, account and
\* resource id in that order with ':' between them, a None field as nothing,
\* an Any field as "*", a Value as its text or the region's canonical string;
\* Arn::ANY is written "arn:aws:*:*:*:*"; Debug writes what Display writes.
C9_Rendering ==
    pc \in {"serialized", "rendered"}
    => /\ out = <<"a","r","n",":","a","w","s",":">>
                \o Written(arn.service, arn.service.v) \o <<":">>
                \o Written(arn.region, CanonicalText(arn.region)) \o <<":">>
                \o Written(arn.account, arn.account.v) \o <<":">>
                \o Written(arn.resource_id, arn.resource_id.v)
       /\ dbg = out
       /\ arn = Arn_ANY =>
            out = <<"a","r","n",":","a","w","s",":","*",":","*",":","*",":","*">>

C9_Witness ==
    /\ pc = "serialized"
    /\ arn.service.tag = "Any"
    /\ arn.region.tag = "Value"
    /\ arn.account.tag = "None"
    /\ arn.resource_id.tag = "Value"
    /\ Cardinality(Seps(out)) > 5

\* C10: two inputs that agree from segment 2 on give the same parse outcome,
\* the same value or the same error, whatever their segments 0 and 1 are, and
\* the rendering of a parsed value starts with "arn:aws:".
C10_PrefixPositional ==
    /\ pc = "paired" =>
        /\ SubSeq(segs2, 3, Len(segs2)) = SubSeq(segs, 3, Len(segs))
        /\ result2 = result
    /\ pc = "rendered" =>
        SubSeq(out, 1, 8) = <<"a","r","n",":","a","w","s",":">>

C10_Witness ==
    /\ pc = "paired"
    /\ segs[1] = <<"a","r","n">> /\ segs[2] = <<"a","w","s">>
    /\ segs2[1] = <<>> /\ segs2[2] # segs[2]
    /\ result.ok
    /\ result2 = result

TypeOK == pc \in {"start", "parsed", "rendered", "paired", "built", "serialized",
                  "deserialized", "try_from", "region_parsed", "region_shown",
                  "region_text", "region_back"}
====
